---------------------------- MODULE Spec2Model ----------------------------
(***************************************************************************)
(* Model of the caviar price monitor.                                      *)
(*                                                                         *)
(* Two programs live in the repository and both are modelled:              *)
(*   "canon" : caviar_scraper.py (init_db_and_scrape) + email_digest.py    *)
(*   "main"  : main.py (the stand-alone SendGrid pipeline)                 *)
(*                                                                         *)
(* Texts are modelled by what the source's regular expressions and         *)
(* substring tests can see of them: the set of vocabulary words a text     *)
(* contains, and the first size / money token of the text.  Money is in    *)
(* cents, sizes in grams, time in ticks (TicksPerSec ticks per second).    *)
(***************************************************************************)
EXTENDS Integers, Sequences, FiniteSets, TLC

VARIABLES
    prog,            \* which program owns this database: "canon" | "main"
    run,             \* number of runs started so far
    REQUIRE_SPECIES, \* main.py:31, read from the environment at process start
    pc,              \* position of the running process
    now,             \* datetime.utcnow(), in ticks
    deadline,        \* start + RUN_LIMIT_SECONDS
    sites,           \* the loaded site list (config.get("sites", []))
    si,              \* index of the site being crawled
    product_list,    \* product URLs of the current site still to scrape
    all_rows,        \* observations collected in this run
    prices,          \* the prices table, in rowid order
    result,          \* rows returned by the last latest-distinct query
    digest,          \* what the notification sink was handed in this run
    page,            \* page-level specifications: the page under test
    out              \* page-level specifications: what the scraper returned

vars == <<prog, run, REQUIRE_SPECIES, pc, now, deadline, sites, si, product_list,
          all_rows, prices, result, digest, page, out>>

-----------------------------------------------------------------------------
(* Bounds of the model *)

TicksPerSec == 2      \* clock resolution: ticks per second of seen_at
MaxTime     == 9      \* the clock stops advancing here
MaxRows     == 2      \* rows the prices table may hold
MaxRuns     == 2      \* runs per behaviour
MaxGrams    == 265    \* largest size in grams handed to a pure function

(* Program constants *)

RUN_LIMIT_SECONDS == 4     \* env RUN_LIMIT_SECONDS, an int the operator sets
SITE_MARGIN_SECONDS == 3   \* main.py:778  time_left() <= 3
PPG_MAX_CENTS == 10000     \* caviar_scraper.py:538  per_g > 100
SIZE_TOLERANCE == 2        \* abs(size_g - s) <= 2
TOP_N == 12                \* main.py:791  get_cheapest(conn, top_n=12)
OZ_G == 283495             \* caviar_scraper.py:161  28.3495 g per ounce, in 1/10000 g

NULL == "NULL"             \* Python None / SQL NULL

Min(a, b) == IF a <= b THEN a ELSE b
Max(a, b) == IF a >= b THEN a ELSE b
Abs(x) == IF x < 0 THEN -x ELSE x

-----------------------------------------------------------------------------
(* Pattern library.  A text is the set of vocabulary words it contains.    *)

Tokens == {"caviar", "ossetra", "oscietra", "beluga", "sevruga", "kaluga",
           "salmon roe", "gift set", "tin", "sold out", "royal",
           "kaluga hybrid", "osetra", "classic", "tasting"}

\* caviar_scraper.py SPECIES_PATTERNS, in declared order; toks = the
\* vocabulary words the rule's regex matches.
SPECIES_PATTERNS ==
    << [toks |-> {"beluga"},              common |-> "Beluga",  latin |-> "Huso huso"],
       [toks |-> {"kaluga", "kaluga hybrid"}, common |-> "Kaluga", latin |-> "Huso dauricus"],
       [toks |-> {"kaluga hybrid"},       common |-> "Kaluga Hybrid", latin |-> "Huso dauricus x Acipenser schrenckii"],
       [toks |-> {"ossetra", "oscietra"}, common |-> "Osetra",  latin |-> "Acipenser gueldenstaedtii"],
       [toks |-> {"sevruga"},             common |-> "Sevruga", latin |-> "Acipenser stellatus"] >>

\* main.py SPECIES_PATTERNS
SPECIES_PATTERNS_main ==
    << [toks |-> {"beluga"},              common |-> "Beluga",  latin |-> "Huso huso"],
       [toks |-> {"kaluga", "kaluga hybrid"}, common |-> "Kaluga", latin |-> "Huso dauricus"],
       [toks |-> {"ossetra", "oscietra"}, common |-> "Osetra",  latin |-> "Acipenser gueldenstaedtii"],
       [toks |-> {"sevruga"},             common |-> "Sevruga", latin |-> "Acipenser stellatus"] >>

NoSpecies == [common |-> NULL, latin |-> NULL]

\* for pat, common, latin in patterns: if re.search(pat, t): return common, latin
FirstMatch(patterns, text) ==
    LET hits == {i \in DOMAIN patterns : patterns[i].toks \cap text # {}}
    IN  IF hits = {} THEN NoSpecies
        ELSE LET i == CHOOSE j \in hits : \A k \in hits : j <= k
             IN  [common |-> patterns[i].common, latin |-> patterns[i].latin]

extract_species(text) == FirstMatch(SPECIES_PATTERNS, text)

extract_species_any(text) == FirstMatch(SPECIES_PATTERNS_main, text)

\* main.py:77
ALLOWED_SPECIES == {SPECIES_PATTERNS_main[i].common : i \in DOMAIN SPECIES_PATTERNS_main}

ensure_sturgeon_species(species_common) == species_common \in ALLOWED_SPECIES

\* The closed vocabulary of either program's species labels.
SpeciesVocabulary ==
    {SPECIES_PATTERNS[i].common : i \in DOMAIN SPECIES_PATTERNS} \cup ALLOWED_SPECIES

\* CAVIAR_WORD = \bcaviar\b
CAVIAR_WORD(text) == "caviar" \in text

\* an accessory check that never fires
is_accessory_name_only_off(product_name) == FALSE

\* ACCESSORY_RE: whole-word match of ACCESSORY_TOKENS ("gift", "set", ...)
is_accessory_name_only(product_name) == "gift set" \in product_name

\* whole-word match of NON_STURGEON_TOKENS ("salmon", ...)
mentions_non_sturgeon(text) == "salmon roe" \in text

\* main.py: any(w in t for w in EXCLUDE_WORDS): a substring test, so the
\* words "ossetra" and "osetra" are hit by the exclusion word "set" and
\* the word "classic" by "class"; "tasting" is an exclusion word itself.
looks_like_accessory(text) ==
    text \cap {"gift set", "tasting", "ossetra", "osetra", "classic"} # {}

\* main.py: substring test of NON_STURGEON_ROE
contains_non_sturgeon_or_roe(text) == "salmon roe" \in text

\* main.py: "tin" in t / "jar" in t
infer_packaging(text) == IF "tin" \in text THEN "tin" ELSE NULL

\* GRADE_RANK keywords by word-boundary search
grade_from_text(text) == IF "royal" \in text THEN "Royal" ELSE NULL

\* VENDOR_HOME_STATE.get(vendor_name, "US")
vendor_state(vendor_name) ==
    IF vendor_name = "Pearl Street Caviar" THEN "NY"
    ELSE IF vendor_name = "Island Creek" THEN "MA"
    ELSE "US"

-----------------------------------------------------------------------------
(* Size and price normaliser *)

\* caviar_scraper.py:31
LIKELY_TIN_SIZES_G == {28, 30, 50, 56, 57, 85, 100, 113, 114, 125, 180, 200, 250, 500, 1000}

\* main.py:64 (no 113)
LIKELY_TIN_SIZES_G_main == {28, 30, 50, 56, 57, 85, 100, 114, 125, 180, 200, 250, 500, 1000}

\* caviar_scraper.py:32, in priority order
PREFERRED_SIZES_G == <<28, 30, 50, 100, 113, 114, 125, 250>>

\* any(abs(size_g - s) <= 2 for s in LIKELY_TIN_SIZES_G)
plausible_size(size_g) ==
    \E s \in LIKELY_TIN_SIZES_G : Abs(size_g - s) <= SIZE_TOLERANCE

plausible_size_main(size_g) ==
    \E s \in LIKELY_TIN_SIZES_G_main : Abs(size_g - s) <= SIZE_TOLERANCE

\* A text: the vocabulary words in it and its first size token in grams
\* (0: no size token, which Python treats like a size of 0: falsy).
Text(tok, size) == [tok |-> tok, size |-> size]
EmptyText == Text({}, 0)

\* a + " " + b: the words of both, the first size token met
Concat(a, b) == Text(a.tok \cup b.tok, IF a.size # 0 THEN a.size ELSE b.size)

\* parse_size(text): the first size token
parse_size(text) == text.size

\* round(x, 2) of a quotient of cents by grams, in cents per gram
\* (round-half-even, as Python rounds)
RoundDiv(n, d) ==
    LET q == n \div d
        r == n % d
    IN  IF 2 * r < d THEN q
        ELSE IF 2 * r > d THEN q + 1
        ELSE IF q % 2 = 0 THEN q ELSE q + 1

\* per-gram prices are fractions num/den of cents per gram: the canonical
\* scraper rounds to whole cents, main.py keeps the unrounded quotient
Frac(n, d) == [num |-> n, den |-> d]
FracLeq(a, b)  == a.num * b.den <= b.num * a.den

\* size_tokens(size_g) against a label that names `label` grams ("113g"):
\* `tok in text` is a substring test, so "30g" is found in "130g"; the
\* 28/29/30 g cluster matches any of the three labels.
Digits(n) == IF n < 10 THEN 10 ELSE IF n < 100 THEN 100 ELSE IF n < 1000 THEN 1000 ELSE 10000
size_tokens_match(size_g, label) ==
    /\ size_g # 0
    /\ label # 0
    /\ LET gs == IF size_g \in {28, 29, 30} THEN {28, 29, 30} ELSE {size_g}
       IN  \E g \in gs : label % Digits(g) = g

\* index of idxs minimising key, the first one among equals (sorted(...)[0])
FirstMin(idxs, key) ==
    CHOOSE i \in idxs : \A j \in idxs : key[i] < key[j] \/ (key[i] = key[j] /\ i <= j)

-----------------------------------------------------------------------------
(* Structured data of a page *)

\* One JSON-LD offer: price in cents (0: absent, or unparseable where the
\* program survives it), label = grams named by its name/sku (0: none),
\* availability string, and two malformations: a price that is a
\* non-numeric string, and a sku that is a JSON number.
Offer(price, label, availability, badprice, numsku) ==
    [price |-> price, label |-> label, availability |-> availability,
     currency |-> "USD", badprice |-> badprice, numsku |-> numsku]

\* One JSON-LD item: its name, its description, its offers.
LdItem(name, desc, offers) == [name |-> name, desc |-> desc, offers |-> offers]

\* One storefront variant: size named by its title, price in cents,
\* available flag; bad = the entry is not an object.
Variant(size, price, available, bad) ==
    [size |-> size, price |-> price, available |-> available, bad |-> bad]

\* looks_sold_out(soup, page_text, availability, variant_available)
looks_sold_out(page_text, availability) ==
    \/ (availability # NULL /\ availability # "InStock")
    \/ "sold out" \in page_text.tok

\* sizes_from_offers_and_variants(soup): the plausible sizes, preferred first
PreferredIndex(x) ==
    IF \E i \in DOMAIN PREFERRED_SIZES_G : PREFERRED_SIZES_G[i] = x
    THEN CHOOSE i \in DOMAIN PREFERRED_SIZES_G : PREFERRED_SIZES_G[i] = x
    ELSE 999
sizes_from_offers_and_variants(p) ==
    LET sizes == {s \in (UNION {{p.ld[i].offers[j].label : j \in DOMAIN p.ld[i].offers} : i \in DOMAIN p.ld})
                            \cup {p.variants[i].size : i \in DOMAIN p.variants} :
                        s # 0 /\ plausible_size(s)}
    IN  IF sizes = {} THEN 0
        ELSE CHOOSE s \in sizes : \A t \in sizes :
                 \/ PreferredIndex(s) < PreferredIndex(t)
                 \/ (PreferredIndex(s) = PreferredIndex(t) /\ s <= t)

\* sizes_from_offers_and_variants raises on a non-string sku (" ".join) and
\* on a variant entry that is no object (v.get)
sizes_raises(p) ==
    \/ \E i \in DOMAIN p.ld : \E j \in DOMAIN p.ld[i].offers : p.ld[i].offers[j].numsku
    \/ \E i \in DOMAIN p.variants : p.variants[i].bad

\* extract_shopify_variants(soup): the variants with a plausible size
extract_shopify_variants(p) ==
    SelectSeq(p.variants, LAMBDA v : v.size # 0 /\ plausible_size(v.size))

-----------------------------------------------------------------------------
(* The canonical product page scraper (caviar_scraper.py) *)

\* Vendor-specific rules: caviar_scraper.py:88-93
ALLOW_BELUGA_DOMAINS == {}

\* a vendor mapping whose label is not one the species rules produce
VENDOR_SPECIES_CANON_unlisted(vendor, species) ==
    IF vendor = "Pearl Street Caviar" /\ species = "Beluga"
    THEN [common |-> "Beluga Hybrid", latin |-> "Huso dauricus x Acipenser schrenckii"]
    ELSE NoSpecies

VENDOR_SPECIES_CANON(vendor, species) ==
    IF vendor = "Pearl Street Caviar" /\ species = "Beluga"
    THEN [common |-> "Kaluga Hybrid", latin |-> "Huso dauricus x Acipenser schrenckii"]
    ELSE NoSpecies

\* a canonicalisation that hands the detected species on as it is
_canonicalize_species_asis(vendor, sp, host) == sp

_canonicalize_species(vendor, sp, host) ==
    IF sp.common = "Beluga" /\ host \notin ALLOW_BELUGA_DOMAINS
    THEN VENDOR_SPECIES_CANON(vendor, "Beluga")
    ELSE IF VENDOR_SPECIES_CANON(vendor, sp.common) # NoSpecies
         THEN VENDOR_SPECIES_CANON(vendor, sp.common)
         ELSE sp

\* the ounce figure of a label, in tenths of an ounce: str(int(round(oz)))
\* when oz is within 0.05 of a whole number, else f"{oz:.1f}"
oz_str(size_g) ==
    LET n == RoundDiv(size_g * 10000, OZ_G)
    IN  IF Abs(size_g * 10000 - n * OZ_G) * 20 < OZ_G THEN 10 * n
        ELSE RoundDiv(size_g * 100000, OZ_G)

\* size_label_both(size_g): f"{oz_str} oz / {g} g"
size_label_both(size_g) == [oz10 |-> oz_str(size_g), g |-> size_g, pack |-> NULL]

\* parse_size(label) of a rendered label: SIZE_RE.search takes the leftmost
\* size token, the ounce figure, and returns val * 28.3495; the value is
\* in 1/100000 g
parse_size_label(label) == label.oz10 * OZ_G

\* what a scraper call comes to: the rows it returns, or an exception
Returns(rows) == [rows |-> rows, exc |-> FALSE]
Raises        == [rows |-> <<>>, exc |-> TRUE]

\* the species the page resolves to: name, then page text, then the
\* site's default_species (caviar_scraper.py:432-437)
resolve_species(p, page_text, default_species) ==
    LET s1 == extract_species(p.name.tok)
        s2 == IF s1.common # NULL THEN s1 ELSE extract_species(page_text.tok)
    IN  IF s2.common = NULL /\ default_species # {}
        THEN extract_species(default_species)
        ELSE s2

\* JSON-LD loop (caviar_scraper.py:465-489): the offer chosen for an item
ld_offer(item, size_g) ==
    LET offs   == item.offers
        cand   == {j \in DOMAIN offs : size_tokens_match(size_g, offs[j].label)}
        priced == {j \in DOMAIN offs : offs[j].price # 0}
    IN  IF cand # {} THEN CHOOSE j \in cand : \A k \in cand : j <= k
        ELSE IF priced # {} THEN FirstMin(priced, [j \in priced |-> offs[j].price])
        ELSE 0

\* a JSON-LD loop that accepts no offer, so that the fallbacks always run
ld_accepts_never(item, size_g, page_text) == FALSE

\* whether the item's offer is accepted: price > 0 and not sold out
ld_accepts(item, size_g, page_text) ==
    /\ Len(item.offers) > 0
    /\ ld_offer(item, size_g) # 0
    /\ LET o == item.offers[ld_offer(item, size_g)]
       IN  o.price > 0 /\ ~looks_sold_out(page_text, o.availability)

\* the token test concatenates name and sku of every offer: a sku that is
\* a JSON number raises TypeError
ld_raises(item) == \E j \in DOMAIN item.offers : item.offers[j].numsku

Row(vendor, url, name, sp, grade, currency, price, size_g, size_label, per_g, origin) ==
    [vendor |-> vendor, url |-> url, name |-> name,
     species |-> sp.common, species_latin |-> sp.latin, grade |-> grade,
     currency |-> currency, price |-> price, size_g |-> size_g,
     size_label |-> size_label, per_g |-> per_g, origin |-> origin]

\* Shopify variants fallback (caviar_scraper.py:492-516)
shopify_match(vars_, size_g) ==
    LET byTitle == {i \in DOMAIN vars_ : size_tokens_match(size_g, vars_[i].size)}
        avail   == {i \in DOMAIN vars_ : vars_[i].available}
    IN  IF byTitle # {} THEN CHOOSE i \in byTitle : \A k \in byTitle : i <= k
        ELSE IF avail # {}
             THEN CHOOSE i \in avail : \A k \in avail :
                     LET ki == <<Abs(vars_[i].size - size_g), vars_[i].price>>
                         kk == <<Abs(vars_[k].size - size_g), vars_[k].price>>
                     IN  \/ ki[1] < kk[1]
                         \/ (ki[1] = kk[1] /\ ki[2] < kk[2])
                         \/ (ki = kk /\ i <= k)
             ELSE 0

\* sanity filters (caviar_scraper.py:536-540)
sanity_filter(rows) ==
    SelectSeq(rows, LAMBDA r : ~(r.per_g.num <= 0 \/ r.per_g.num > PPG_MAX_CENTS * r.per_g.den))

\* a scraper that appends a row for every variant of the page, as the
\* platform branch of main.py does, in place of the one matched variant
scrape_product_every_variant(p, url, vendor, default_species) ==
    LET vars_ == extract_shopify_variants(p)
        sp    == extract_species(p.name.tok)
    IN  IF ~p.ok THEN Returns(<<>>)
        ELSE Returns([i \in DOMAIN vars_ |->
                 Row(vendor, url, p.name, sp, NULL, "USD", vars_[i].price,
                     vars_[i].size, size_label_both(vars_[i].size),
                     Frac(RoundDiv(vars_[i].price, vars_[i].size), 1),
                     vendor_state(vendor))])

scrape_product(p, url, vendor, default_species) ==
    LET page_text == Concat(p.name, p.body)
        sp0       == resolve_species(p, page_text, default_species)
        sp        == _canonicalize_species(vendor, sp0, url.host)
        grade     == grade_from_text(page_text.tok)
        text_size == IF parse_size(p.name) # 0 THEN parse_size(p.name) ELSE parse_size(page_text)
        size_g    == IF text_size # 0 THEN text_size ELSE sizes_from_offers_and_variants(p)
        mk(nm, cur, price, sg) ==
            Row(vendor, url, nm, sp, grade, cur, price, sg, size_label_both(sg),
                Frac(RoundDiv(price, sg), 1), vendor_state(vendor))
        \* first item of the JSON-LD loop that raises or is accepted
        stops     == {i \in DOMAIN p.ld : ld_raises(p.ld[i]) \/ ld_accepts(p.ld[i], size_g, page_text)}
        first     == IF stops = {} THEN 0 ELSE CHOOSE i \in stops : \A k \in stops : i <= k
        vars_     == extract_shopify_variants(p)
        m         == shopify_match(vars_, size_g)
    IN  IF ~p.ok THEN Returns(<<>>)
        ELSE IF is_accessory_name_only(p.name.tok) THEN Returns(<<>>)
        ELSE IF mentions_non_sturgeon(page_text.tok) THEN Returns(<<>>)
        ELSE IF ~(sp0.common # NULL \/ CAVIAR_WORD(page_text.tok)) THEN Returns(<<>>)
        ELSE IF sp0.common = NULL THEN Returns(<<>>)
        ELSE IF sp.common = NULL THEN Returns(<<>>)
        ELSE IF text_size = 0 /\ sizes_raises(p) THEN Raises
        ELSE IF size_g = 0 \/ ~plausible_size(size_g) THEN Returns(<<>>)
        ELSE IF first # 0 /\ ld_raises(p.ld[first]) THEN Raises
        ELSE IF first # 0
             THEN LET item == p.ld[first]
                      o    == item.offers[ld_offer(item, size_g)]
                      nm   == IF item.name # EmptyText THEN item.name ELSE p.name
                  IN  Returns(sanity_filter(<<mk(nm, o.currency, o.price, size_g)>>))
        ELSE IF \E i \in DOMAIN p.variants : p.variants[i].bad THEN Raises
        ELSE IF vars_ # <<>> /\ m # 0 /\ vars_[m].available /\ vars_[m].price > 0
             THEN Returns(sanity_filter(<<mk(p.name, "USD", vars_[m].price, vars_[m].size)>>))
        ELSE IF p.money > 0 /\ ~looks_sold_out(page_text, NULL)
             THEN Returns(sanity_filter(<<mk(p.name, "USD", p.money, size_g)>>))
        ELSE Returns(<<>>)

-----------------------------------------------------------------------------
(* The product page scraper of main.py *)

\* "caviar" in url
url_has_caviar(url) == url.host = "pearlstreetcaviar.com"

\* url_or_text_has_caviar(url, text)
url_or_text_has_caviar(url, text) == url_has_caviar(url) \/ CAVIAR_WORD(text.tok)

\* is_individual_tinjar(name, page_text, url): main.py:360-370
is_individual_tinjar(name, page_text, url) ==
    LET size_g == parse_size(Concat(name, page_text))
    IN  IF ~(url_or_text_has_caviar(url, name) \/ url_or_text_has_caviar(url, page_text))
        THEN FALSE
        ELSE IF looks_like_accessory(name.tok) \/ looks_like_accessory(page_text.tok)
        THEN FALSE
        ELSE IF contains_non_sturgeon_or_roe(name.tok) \/ contains_non_sturgeon_or_roe(page_text.tok)
        THEN FALSE
        ELSE IF infer_packaging(name.tok) # NULL \/ infer_packaging(page_text.tok) # NULL
        THEN TRUE
        ELSE size_g # 0 /\ plausible_size_main(size_g)

\* grams_to_label_both(size_g, packaging)
grams_to_label_both(size_g, packaging) ==
    [oz10 |-> oz_str(size_g), g |-> size_g, pack |-> packaging]

\* choose_offer_for_size(offers, size_g): the index chosen (0: None), and
\* whether the scan raises on a numeric sku before it finds a token match
choose_offer_for_size(offers, size_g) ==
    LET hit    == {j \in DOMAIN offers : size_tokens_match(size_g, offers[j].label)}
        priced == {j \in DOMAIN offers : offers[j].price # 0}
    IN  IF Len(offers) = 0 \/ size_g = 0 THEN 0
        ELSE IF hit # {} THEN CHOOSE j \in hit : \A k \in hit : j <= k
        ELSE IF priced # {} THEN FirstMin(priced, [j \in priced |-> offers[j].price])
        ELSE 0

choose_offer_raises(offers, size_g) ==
    /\ Len(offers) > 0 /\ size_g # 0
    /\ \E j \in DOMAIN offers :
          /\ offers[j].numsku
          /\ \A k \in 1..(j - 1) : ~size_tokens_match(size_g, offers[k].label)

\* extract_ld_json_products_extended(soup) raises on float() of a
\* non-numeric price string (main.py:403)
extract_ld_json_products_extended_raises(p) ==
    \E i \in DOMAIN p.ld : \E j \in DOMAIN p.ld[i].offers : p.ld[i].offers[j].badprice

\* extract_species_from_json_ld(soup): the first item whose description
\* names a species
extract_species_from_json_ld(p) ==
    LET hits == {i \in DOMAIN p.ld : extract_species_any(p.ld[i].desc.tok).common # NULL}
    IN  IF hits = {} THEN NoSpecies
        ELSE extract_species_any(p.ld[CHOOSE i \in hits : \A k \in hits : i <= k].desc.tok)

\* extract_shopify_variants_and_tags(soup): variants with a plausible size
extract_shopify_variants_and_tags(p) ==
    SelectSeq(p.variants, LAMBDA v : v.size # 0 /\ plausible_size_main(v.size))

\* One pass of the JSON-LD loop body (main.py:559-593) for item i:
\* "skip" (continue), "raise", or "row"
ld_step_main(p, i, url, require, sp) ==
    LET page_text == Concat(p.name, p.body)
        item      == p.ld[i]
        base_name == IF item.name # EmptyText THEN item.name ELSE p.name
        size_g    == parse_size(Concat(base_name, Concat(item.desc, page_text)))
        j         == choose_offer_for_size(item.offers, size_g)
        oprice    == IF j = 0 THEN 0 ELSE item.offers[j].price
        price     == IF oprice # 0 THEN oprice ELSE p.money
        pack      == IF infer_packaging(base_name.tok) # NULL
                     THEN infer_packaging(base_name.tok) ELSE infer_packaging(page_text.tok)
    IN  IF ~is_individual_tinjar(base_name, page_text, url) THEN [kind |-> "skip"]
        ELSE IF size_g = 0 THEN [kind |-> "skip"]
        ELSE IF choose_offer_raises(item.offers, size_g) THEN [kind |-> "raise"]
        ELSE IF price = 0 THEN [kind |-> "skip"]
        ELSE IF require = 1 /\ ~(sp.common # NULL /\ ensure_sturgeon_species(sp.common))
             THEN [kind |-> "skip"]
        ELSE [kind |-> "row",
              row  |-> Row(NULL, url, base_name, sp, NULL, "USD", price, size_g,
                           grams_to_label_both(size_g, pack), Frac(price, size_g), NULL)]

RECURSIVE ld_rows_main(_, _, _, _, _)
ld_rows_main(p, i, url, require, sp) ==
    IF i > Len(p.ld) THEN Returns(<<>>)
    ELSE LET step == ld_step_main(p, i, url, require, sp)
             rest == ld_rows_main(p, i + 1, url, require, sp)
         IN  IF step.kind = "raise" THEN Raises
             ELSE IF rest.exc THEN Raises
             ELSE IF step.kind = "row" THEN Returns(<<step.row>> \o rest.rows)
             ELSE rest

\* the final guard (main.py:661-662)
species_guard(rows, require) ==
    IF require = 1
    THEN SelectSeq(rows, LAMBDA r : r.species # NULL /\ ensure_sturgeon_species(r.species))
    ELSE rows

\* URL gate (main.py:526-528): the modelled product URLs all hold
\* "/products/" and no blocklisted part
url_gate(url) == url.path \in {"/products/a", "/products/b"}

scrape_product_page(p, url, require) ==
    LET page_text == Concat(p.name, p.body)
        sp1       == extract_species_any(page_text.tok)
        sp        == IF sp1.common # NULL THEN sp1 ELSE extract_species_from_json_ld(p)
        ld        == ld_rows_main(p, 1, url, require, sp)
        shopify   == extract_shopify_variants_and_tags(p)
        pack      == IF infer_packaging(p.name.tok) # NULL
                     THEN infer_packaging(p.name.tok) ELSE infer_packaging(page_text.tok)
        vrow(v)   == Row(NULL, url, p.name, sp, NULL, "USD", v.price, v.size,
                         grams_to_label_both(v.size, pack), Frac(v.price, v.size), NULL)
        vrows     == [i \in DOMAIN shopify |-> vrow(shopify[i])]
    IN  IF ~url_gate(url) THEN Returns(<<>>)
        ELSE IF ~p.ok THEN Returns(<<>>)
        ELSE IF extract_ld_json_products_extended_raises(p) THEN Raises
        ELSE IF ld.exc THEN Raises
        ELSE IF ld.rows # <<>> THEN Returns(species_guard(ld.rows, require))
        ELSE IF ~url_or_text_has_caviar(url, page_text) THEN Returns(<<>>)
        ELSE IF ~is_individual_tinjar(p.name, page_text, url) THEN Returns(<<>>)
        ELSE IF \E i \in DOMAIN p.variants : p.variants[i].bad THEN Raises
        ELSE IF require = 1 /\ ~(sp.common # NULL /\ ensure_sturgeon_species(sp.common))
             THEN Returns(<<>>)
        ELSE Returns(species_guard(vrows, require))

-----------------------------------------------------------------------------
(* Observation store *)

\* one INSERT: the row with seen_at = datetime.utcnow().isoformat()
Stored(r, t) ==
    [vendor |-> r.vendor, url |-> r.url, name |-> r.name,
     species |-> r.species, species_latin |-> r.species_latin, grade |-> r.grade,
     currency |-> r.currency, price |-> r.price, size_g |-> r.size_g,
     size_label |-> r.size_label, per_g |-> r.per_g, origin |-> r.origin,
     seen_at |-> t]

\* an INSERT OR REPLACE on (vendor, url, size_g) in place of the INSERT
store_replace(db, rows, ts) ==
    LET new == [i \in 1..Len(rows) |-> Stored(rows[i], ts[i])]
    IN  SelectSeq(db, LAMBDA r : \A i \in DOMAIN new :
                     <<new[i].vendor, new[i].url, new[i].size_g>> # <<r.vendor, r.url, r.size_g>>)
        \o new

\* store(conn, rows) / store_prices(conn, items): one INSERT per element,
\* ts[i] the clock reading of the i-th INSERT; nothing else is written
store(db, rows, ts) ==
    IF rows = <<>> THEN db
    ELSE db \o [i \in 1..Len(rows) |-> Stored(rows[i], ts[i])]

\* the clock readings of n successive INSERTs starting at time t: each
\* INSERT takes no tick or one tick
InsertTimes(n, t) ==
    {ts \in [1..n -> t..Min(t + n, MaxTime)] :
        /\ n > 0 => ts[1] \in {t, Min(t + 1, MaxTime)}
        /\ \A i \in 2..n : ts[i] \in {ts[i - 1], Min(ts[i - 1] + 1, MaxTime)}}

\* SQLite datetime(seen_at): the timestamp cut to whole seconds
datetime(seen_at) == seen_at \div TicksPerSec

\* the WHERE clause left out
has_species_unfiltered(r) == TRUE

\* WHERE species IS NOT NULL AND species <> ''
has_species(r) == r.species # NULL /\ r.species # ""

\* PARTITION BY vendor, url, size_g
PartKey(r) == <<r.vendor, r.url, r.size_g>>

\* ROW_NUMBER() OVER (PARTITION BY ... ORDER BY datetime(seen_at) DESC) = 1:
\* the rows of E that may get rn = 1 in their partition.  Rows with equal
\* datetime() are peers of the ORDER BY: which of them is numbered 1 is
\* not determined by the query.
MayBeFirst(db, E, i) ==
    \A j \in E : PartKey(db[j]) = PartKey(db[i]) =>
                    datetime(db[j].seen_at) <= datetime(db[i].seen_at)

\* every way the window function may pick one rn = 1 row per partition
LatestPicks(db, E) ==
    {S \in SUBSET E :
        /\ \A i \in S : MayBeFirst(db, E, i)
        /\ \A i \in E : \E j \in S : PartKey(db[j]) = PartKey(db[i])
        /\ \A i, j \in S : PartKey(db[i]) = PartKey(db[j]) => i = j}

MinOf(S) == CHOOSE x \in S : \A y \in S : x <= y
MinFrac(S) == CHOOSE x \in S : \A y \in S : FracLeq(x, y)

\* GROUP BY of the dedup CTE (caviar_scraper.py:304)
GroupKey(r) == <<r.vendor, r.url, r.name, r.species, r.species_latin, r.grade,
                 r.size_g, r.size_label, r.origin, r.currency>>

\* the dedup CTE and the final SELECT over the picked rows S
dedup(db, S) ==
    {[vendor |-> db[i].vendor, name |-> db[i].name, species |-> db[i].species,
      species_latin |-> db[i].species_latin, grade |-> db[i].grade,
      currency |-> db[i].currency,
      price |-> MinOf({db[j].price : j \in {k \in S : GroupKey(db[k]) = GroupKey(db[i])}}),
      size_g |-> db[i].size_g, size_label |-> db[i].size_label,
      per_g |-> MinFrac({db[j].per_g : j \in {k \in S : GroupKey(db[k]) = GroupKey(db[i])}}),
      url |-> db[i].url, origin |-> db[i].origin] : i \in S}

\* the Python pass over the fetched rows (caviar_scraper.py:310-318): one
\* row per (vendor, url, int(round(size_g)), round(price, 2))
OutKey(r) == <<r.vendor, r.url, r.size_g, r.price>>
py_unique(rows) ==
    {r \in rows : r = CHOOSE q \in rows : OutKey(q) = OutKey(r)}

\* latest_best_by_vendor(conn): every result the query may return
latest_best_by_vendor(db) ==
    LET E == {i \in DOMAIN db : has_species(db[i])}
    IN  {py_unique(dedup(db, S)) : S \in LatestPicks(db, E)}

\* order of urls under SQL MIN(url)
UrlRank(url) == IF url.path = "/products/a" THEN 1 ELSE 2
MinUrl(S) == CHOOSE u \in S : \A v \in S : UrlRank(u) <= UrlRank(v)

\* GROUP BY of the collapsed CTE (main.py:167): no url in the key
CollapseKey(r) == <<r.vendor, r.name, r.size_g, r.size_label, r.currency,
                    r.species, r.species_latin, r.origin>>

collapsed(db, S) ==
    {LET G == {k \in S : CollapseKey(db[k]) = CollapseKey(db[i])}
     IN  [vendor |-> db[i].vendor, name |-> db[i].name, species |-> db[i].species,
          species_latin |-> db[i].species_latin, grade |-> NULL,
          currency |-> db[i].currency,
          price |-> MinOf({db[j].price : j \in G}),
          size_g |-> db[i].size_g, size_label |-> db[i].size_label,
          per_g |-> MinFrac({db[j].per_g : j \in G}),
          url |-> MinUrl({db[j].url : j \in G}), origin |-> db[i].origin] : i \in S}

\* ORDER BY per_g ASC LIMIT top_n: every set of rows the limit may keep
limit(rows, top_n) ==
    IF Cardinality(rows) <= top_n THEN {rows}
    ELSE {T \in SUBSET rows :
             /\ Cardinality(T) = top_n
             /\ \A a \in T : \A b \in rows \ T : FracLeq(a.per_g, b.per_g)}

\* get_cheapest(conn, top_n): every result the query may return
get_cheapest(db, require, top_n) ==
    LET E == {i \in DOMAIN db : require = 0 \/ has_species(db[i])}
    IN  UNION {limit(collapsed(db, S), top_n) : S \in LatestPicks(db, E)}

\* PARTITION BY site, name of get_movers
MoverKey(r) == <<r.vendor, r.name>>

\* ROW_NUMBER() OVER (PARTITION BY site, name ORDER BY datetime(seen_at)
\* DESC): the pairs (rn = 1, rn = 2) the numbering may give the partition
\* of row i; rows of equal datetime() are peers, numbered in either order
RankedPairs(db, E, i) ==
    LET G == {j \in E : MoverKey(db[j]) = MoverKey(db[i])}
    IN  {pr \in G \X G :
            /\ pr[1] # pr[2]
            /\ \A j \in G : datetime(db[j].seen_at) <= datetime(db[pr[1]].seen_at)
            /\ \A j \in G \ {pr[1]} :
                  datetime(db[j].seen_at) <= datetime(db[pr[2]].seen_at)}

\* the loop body of get_movers for the joined row (a.rn = 1, b.rn = 2):
\* nothing unless prev and price != prev, else the entry with
\* delta_pct = round(delta / prev * 100, 2), here in 1/100 percent
mover(db, pr) ==
    LET price == db[pr[1]].price
        prev  == db[pr[2]].price
        pct   == RoundDiv(Abs(price - prev) * 10000, Abs(prev))
    IN  IF prev = 0 \/ price = prev THEN {}
        ELSE {[vendor |-> db[pr[1]].vendor, name |-> db[pr[1]].name,
               price |-> price, prev |-> prev,
               delta_pct |-> IF (price > prev) = (prev > 0) THEN pct ELSE -pct]}

\* every list `out` the loop may build, as a set of entries: one choice of
\* (rn = 1, rn = 2) per partition with two rows or more
RECURSIVE movers_out(_, _, _)
movers_out(db, E, todo) ==
    IF todo = {} THEN {{}}
    ELSE LET i    == CHOOSE j \in todo : \A k \in todo : j <= k
             rest == movers_out(db, E, {j \in todo : MoverKey(db[j]) # MoverKey(db[i])})
         IN  IF RankedPairs(db, E, i) = {} THEN rest
             ELSE {S \cup mover(db, pr) : S \in rest, pr \in RankedPairs(db, E, i)}

\* sorted(out, key=lambda x: -abs(x["delta_pct"]))
RECURSIVE sorted_movers(_)
sorted_movers(S) ==
    IF S = {} THEN <<>>
    ELSE LET m == CHOOSE a \in S : \A b \in S : Abs(a.delta_pct) >= Abs(b.delta_pct)
         IN  <<m>> \o sorted_movers(S \ {m})

\* [:5]
movers_cut(s) == SubSeq(s, 1, Min(5, Len(s)))

\* get_movers(conn): every list the function may return
get_movers(db, require) ==
    LET E == {i \in DOMAIN db : require = 0 \/ has_species(db[i])}
    IN  {movers_cut(sorted_movers(S)) : S \in movers_out(db, E, E)}

-----------------------------------------------------------------------------
(* Grouping and rendering of the digest *)

\* thresholds that leave the boundary sizes to the next bucket
bucket_for_size_exclusive(g) ==
    IF g = 0 THEN "Other"
    ELSE IF g < 50 THEN "For 2 (30-50 g)"
    ELSE IF g < 110 THEN "For 4 (~100 g)"
    ELSE IF g < 260 THEN "Specials (125-250 g)"
    ELSE "Bulk (500 g+)"

\* bucket_for_size(g); a size of 0 stands for None
bucket_for_size(g) ==
    IF g = 0 THEN "Other"
    ELSE IF g <= 50 THEN "For 2 (30-50 g)"
    ELSE IF g <= 110 THEN "For 4 (~100 g)"
    ELSE IF g <= 260 THEN "Specials (125-250 g)"
    ELSE "Bulk (500 g+)"

BucketNames ==
    {"Other", "For 2 (30-50 g)", "For 4 (~100 g)", "Specials (125-250 g)", "Bulk (500 g+)"}

\* GRADE_RANK.get((item.get("grade") or "").lower(), 99)
GRADE_RANK(grade) == IF grade = "Royal" THEN 2 ELSE 99

\* order of the vendor names under Python string comparison
VendorRank(vendor) == IF vendor = "Island Creek" THEN 1 ELSE 2

\* best_sort_key(a) <= best_sort_key(b): (rank, per_g, vendor) as tuples
KeyLeq(a, b) ==
    LET ra == GRADE_RANK(a.grade)
        rb == GRADE_RANK(b.grade)
    IN  \/ ra < rb
        \/ ra = rb /\ FracLeq(a.per_g, b.per_g) /\ ~FracLeq(b.per_g, a.per_g)
        \/ ra = rb /\ FracLeq(a.per_g, b.per_g) /\ FracLeq(b.per_g, a.per_g)
              /\ VendorRank(a.vendor) <= VendorRank(b.vendor)

\* goods = [r for r in rows if r.get("size_g") and r.get("species")]
goods(rows) == {r \in rows : r.size_g # 0 /\ r.species \notin {NULL, ""}}

\* sorted(items, key=best_sort_key): the least item first; items of equal
\* key stand in the order the query returned them
RECURSIVE sorted(_)
sorted(items) ==
    IF items = {} THEN <<>>
    ELSE LET m == CHOOSE a \in items : \A b \in items : KeyLeq(a, b)
         IN  <<m>> \o sorted(items \ {m})

\* items_sorted[:7] in place of items_sorted[:6]
first_six_and_one(items) == SubSeq(sorted(items), 1, Min(7, Cardinality(items)))

\* items_sorted[:6]
first_six(items) == SubSeq(sorted(items), 1, Min(6, Cardinality(items)))

\* group_and_pick(rows): the buckets and their top picks; a bucket that
\* got no row has no key in the dicts, here it is empty
group_and_pick(rows) ==
    LET buckets == [b \in BucketNames |->
                       {r \in goods(rows) : bucket_for_size(r.size_g) = b}]
    IN  [buckets |-> buckets,
         top_picks |-> [b \in BucketNames |-> first_six(buckets[b])]]

\* render_text(date_str, top_picks, buckets): the rows listed, and whether
\* the line "No caviar listings with verified species found in this run."
\* is in the text (if not any_items)
render_text(top_picks) ==
    [listed |-> UNION {{top_picks[b][i] : i \in DOMAIN top_picks[b]} : b \in BucketNames},
     no_listings |-> \A b \in BucketNames : top_picks[b] = <<>>]

\* the text body that Send hands to send_email
DigestText == render_text(group_and_pick(result).top_picks)

-----------------------------------------------------------------------------
(* Inputs: the configuration and what the network returns *)

URL(host, path) == [host |-> host, path |-> path]

\* config.get("sites", []): per site its name, its default_species, its
\* seed_product_urls and the product links its start pages lead to
SITES ==
    << [name |-> "Pearl Street Caviar", default_species |-> {},
        seeds |-> <<URL("pearlstreetcaviar.com", "/products/a")>>,
        links |-> <<>>],
       [name |-> "Island Creek", default_species |-> {"oscietra"},
        seeds |-> <<>>,
        links |-> <<URL("islandcreekoysters.com", "/products/a"),
                    URL("islandcreekoysters.com", "/products/b")>>] >>

GoodName == Text({"oscietra", "caviar"}, 30)
InStock(price) == Offer(price, 0, "InStock", FALSE, FALSE)
OneOffer(price) == <<LdItem(EmptyText, EmptyText, <<InStock(price)>>)>>
Page(ok, name, body, money, ld, variants) ==
    [ok |-> ok, name |-> name, body |-> body, money |-> money, ld |-> ld,
     variants |-> variants]

\* what safe_get(url) may return during a run
RunPages ==
    { Page(TRUE, GoodName, EmptyText, 0, OneOffer(6800), <<>>),
      Page(TRUE, Text({"caviar"}, 30), EmptyText, 0, OneOffer(6800), <<>>),
      Page(TRUE, GoodName, EmptyText, 0, <<>>, <<Variant(30, 6800, TRUE, TRUE)>>),
      Page(FALSE, EmptyText, EmptyText, 0, <<>>, <<>>) }

NoPage == Page(FALSE, EmptyText, EmptyText, 0, <<>>, <<>>)

-----------------------------------------------------------------------------
(* The run: init_db_and_scrape + email_digest.main, and main.py main *)

Site == sites[si]

\* p["site"] = site_name (main.py:712)
SetSite(rows, site_name) ==
    [i \in DOMAIN rows |-> [rows[i] EXCEPT !.vendor = site_name]]

\* a fetch whose failure is raised (raise_for_status) instead of skipped
ScrapeSite_failfast(program, site, p, url, require) ==
    IF ~p.ok THEN Raises
    ELSE IF program = "canon"
    THEN scrape_product(p, url, site.name, site.default_species)
    ELSE LET r == scrape_product_page(p, url, require)
         IN  [rows |-> SetSite(r.rows, site.name), exc |-> r.exc]

\* one product page of a site: the scraper of the running program
ScrapeSite(program, site, p, url, require) ==
    IF program = "canon"
    THEN scrape_product(p, url, site.name, site.default_species)
    ELSE LET r == scrape_product_page(p, url, require)
         IN  [rows |-> SetSite(r.rows, site.name), exc |-> r.exc]

Scrape(p, url) == ScrapeSite(prog, Site, p, url, REQUIRE_SPECIES)

\* the site loop's deadline test: caviar_scraper.py:725, main.py:778
time_left == Max(0, deadline - now)
SiteTimebox ==
    IF prog = "canon" THEN now > deadline
    ELSE time_left <= SITE_MARGIN_SECONDS * TicksPerSec

\* a deadline that is never set: bool(deadline and ...) is False
timed_out_unset == FALSE

\* the page loop's deadline test: caviar_scraper.py:696, main.py:675
timed_out == now >= deadline

\* de-dupe before storing (caviar_scraper.py:730-737): first row of each
\* (vendor, url, int(round(size_g)), round(price, 2))
unique(rows) ==
    LET keep == {i \in DOMAIN rows : \A j \in 1..(i - 1) : OutKey(rows[j]) # OutKey(rows[i])}
        RECURSIVE pick(_)
        pick(i) == IF i > Len(rows) THEN <<>>
                   ELSE IF i \in keep THEN <<rows[i]>> \o pick(i + 1)
                   ELSE pick(i + 1)
    IN  pick(1)

\* the product links a crawl of the site may come back with
SubSeqs(q) ==
    {<<>>} \cup {SubSeq(q, i, j) : i \in 1..Len(q), j \in 1..Len(q)}
Discovered(site) ==
    IF prog = "canon" THEN {site.seeds \o l : l \in SubSeqs(site.links)}
    ELSE SubSeqs(site.seeds \o site.links)

RunVars == <<prog, run, REQUIRE_SPECIES, deadline, sites, si, product_list,
             all_rows, prices, result, digest, page, out>>

\* the process starts: the deadline is fixed, the configuration is loaded
StartRun ==
    /\ pc = "idle" /\ run < MaxRuns
    /\ run' = run + 1
    /\ deadline' = now + RUN_LIMIT_SECONDS * TicksPerSec
    /\ \E req \in {0, 1} : REQUIRE_SPECIES' = IF prog = "main" THEN req ELSE 1
    /\ \E yaml_ok \in BOOLEAN :
          /\ sites' = IF yaml_ok THEN SITES ELSE <<>>
          /\ pc' = IF prog = "canon" /\ ~yaml_ok THEN "aborted" ELSE "sites"
    /\ si' = 1 /\ product_list' = <<>> /\ all_rows' = <<>>
    /\ result' = {} /\ digest' = "none"
    /\ UNCHANGED <<prog, now, prices, page, out>>

\* for site in sites: the timebox holds and a site is left: crawl_site
CrawlSite ==
    /\ pc = "sites" /\ si <= Len(sites) /\ ~SiteTimebox
    /\ pc' = "crawl"
    /\ UNCHANGED <<now, RunVars>>

\* the site loop ends: by exhaustion or by the timebox
SitesDone ==
    /\ pc = "sites" /\ (si > Len(sites) \/ SiteTimebox)
    /\ pc' = "store"
    /\ UNCHANGED <<now, RunVars>>

\* crawl_site up to product_list: nothing is fetched once timed out
Discover ==
    /\ pc = "crawl"
    /\ \E l \in (IF timed_out THEN {<<>>} ELSE Discovered(Site)) : product_list' = l
    /\ pc' = "products"
    /\ UNCHANGED <<prog, run, REQUIRE_SPECIES, now, deadline, sites, si,
                   all_rows, prices, result, digest, page, out>>

\* one pass of the product loop on the page p that safe_get returns: the
\* deadline test, then the scrape; an exception leaves the loop, the
\* crawl and the run
ScrapeStep(p) ==
    /\ pc = "products" /\ product_list # <<>> /\ ~timed_out
    /\ LET r == Scrape(p, Head(product_list))
       IN  /\ Len(prices) + Len(all_rows) + Len(r.rows) <= MaxRows
           /\ IF r.exc
              THEN pc' = "aborted" /\ UNCHANGED <<all_rows, product_list>>
              ELSE /\ pc' = "products"
                   /\ all_rows' = all_rows \o r.rows
                   /\ product_list' = Tail(product_list)
    /\ UNCHANGED <<prog, run, REQUIRE_SPECIES, now, deadline, sites, si,
                   prices, result, digest>>

ScrapeNext ==
    /\ \E p \in RunPages : ScrapeStep(p)
    /\ UNCHANGED <<page, out>>

\* the product loop ends: by exhaustion or by the deadline
SiteDone ==
    /\ pc = "products" /\ (product_list = <<>> \/ timed_out)
    /\ pc' = "sites" /\ si' = si + 1 /\ product_list' = <<>>
    /\ UNCHANGED <<prog, run, REQUIRE_SPECIES, now, deadline, sites,
                   all_rows, prices, result, digest, page, out>>

\* the rows handed to the store: canon de-dupes, main.py stores all
Collected == IF prog = "canon" THEN unique(all_rows) ELSE all_rows

\* if all_rows: store(conn, unique) / store_prices(conn, all_prices)
Store ==
    /\ pc = "store"
    /\ \E ts \in InsertTimes(Len(Collected), now) :
          /\ prices' = store(prices, Collected, ts)
          /\ now' = IF Collected = <<>> THEN now ELSE ts[Len(Collected)]
    /\ pc' = "query"
    /\ UNCHANGED <<prog, run, REQUIRE_SPECIES, deadline, sites, si, product_list,
                   all_rows, result, digest, page, out>>

\* the latest-distinct query of the running program
LatestDistinct ==
    IF prog = "canon" THEN latest_best_by_vendor(prices)
    ELSE get_cheapest(prices, REQUIRE_SPECIES, TOP_N)

Query ==
    /\ pc = "query"
    /\ \E rows \in LatestDistinct : result' = rows
    /\ pc' = "send"
    /\ UNCHANGED <<prog, run, REQUIRE_SPECIES, now, deadline, sites, si,
                   product_list, all_rows, prices, digest, page, out>>

\* render and send_email / send_email_html: the send is attempted and
\* either goes through or fails
Send ==
    /\ pc = "send"
    /\ \E d \in {"sent", "failed"} : digest' = d
    /\ pc' = "done"
    /\ UNCHANGED <<prog, run, REQUIRE_SPECIES, now, deadline, sites, si,
                   product_list, all_rows, prices, result, page, out>>

\* the process exits and its memory is gone; the table and the digest
\* handed to the mail service remain, and the scheduler may start the
\* next run
Exit ==
    /\ pc \in {"done", "aborted"}
    /\ pc' = "idle"
    /\ deadline' = 0 /\ sites' = <<>> /\ si' = 1 /\ product_list' = <<>>
    /\ all_rows' = <<>> /\ result' = {} /\ REQUIRE_SPECIES' = 1
    /\ UNCHANGED <<prog, run, now, prices, digest, page, out>>

\* the clock: time passes while the process waits for the network, and
\* while the scheduler waits to start the next run (the INSERTs of Store
\* read the clock themselves)
Tick ==
    /\ pc \in {"crawl", "products"} \/ (pc = "idle" /\ run < MaxRuns)
    /\ now < MaxTime
    /\ now' = now + 1
    /\ UNCHANGED <<pc, RunVars>>

Init ==
    /\ prog \in {"canon", "main"}
    /\ run = 0 /\ REQUIRE_SPECIES = 1
    /\ pc = "idle" /\ now = 0 /\ deadline = 0
    /\ sites = <<>> /\ si = 1 /\ product_list = <<>>
    /\ all_rows = <<>> /\ prices = <<>> /\ result = {} /\ digest = "none"
    /\ page = NoPage /\ out = Returns(<<>>)

Next ==
    \/ StartRun \/ CrawlSite \/ SitesDone \/ Discover \/ ScrapeNext \/ SiteDone
    \/ Store \/ Query \/ Send \/ Exit \/ Tick

Spec == Init /\ [][Next]_vars

-----------------------------------------------------------------------------
(* One product page, from the fetch to the table: every page of Pages *)

Names ==
    { Text({"oscietra", "caviar"}, 30),
      Text({"caviar"}, 0),
      Text({"oscietra"}, 0),
      Text({"beluga", "caviar"}, 30),
      Text({"oscietra", "caviar", "gift set"}, 30),
      Text({"oscietra", "caviar"}, 7),
      Text({"oscietra", "caviar", "tin"}, 7),
      Text({"tin"}, 30) }

Bodies ==
    { EmptyText,
      Text({"sold out"}, 0),
      Text({"salmon roe"}, 0),
      Text({"sevruga"}, 50),
      Text({}, 30),
      Text({"gift set"}, 0) }

Moneys == {0, 6800, 500000}

LdLists ==
    { <<>>,
      OneOffer(6800),
      OneOffer(500000),
      OneOffer(-500),
      <<LdItem(EmptyText, EmptyText, <<Offer(6800, 0, "OutOfStock", FALSE, FALSE)>>)>>,
      <<LdItem(EmptyText, EmptyText, <<Offer(0, 0, "InStock", TRUE, FALSE)>>)>>,
      <<LdItem(EmptyText, EmptyText, <<Offer(0, 0, "InStock", FALSE, FALSE)>>)>>,
      <<LdItem(EmptyText, EmptyText, <<Offer(6800, 0, "InStock", FALSE, TRUE)>>)>>,
      <<LdItem(EmptyText, Text({}, 7), <<InStock(6800)>>)>>,
      <<LdItem(Text({"sevruga", "caviar"}, 50), EmptyText,
               <<Offer(9900, 50, "InStock", FALSE, FALSE),
                 Offer(6800, 30, "InStock", FALSE, FALSE)>>)>>,
      <<LdItem(EmptyText, EmptyText, <<InStock(7200)>>),
        LdItem(EmptyText, EmptyText, <<InStock(6800)>>)>> }

VariantLists ==
    { <<>>,
      <<Variant(30, 6800, TRUE, FALSE)>>,
      <<Variant(30, 6800, FALSE, FALSE), Variant(50, 9900, TRUE, FALSE)>>,
      <<Variant(30, 6800, TRUE, TRUE)>>,
      <<Variant(113, 0, TRUE, FALSE)>> }

Pages ==
    {NoPage} \cup
    {Page(TRUE, n, b, m, l, v) :
        n \in Names, b \in Bodies, m \in Moneys, l \in LdLists, v \in VariantLists}

\* a run of a one-site configuration, at the product loop with one
\* product link left, the page behind it any page of Pages
InitPage ==
    /\ prog \in {"canon", "main"}
    /\ REQUIRE_SPECIES \in (IF prog = "main" THEN {0, 1} ELSE {1})
    /\ run = 1 /\ pc = "products" /\ now = 0
    /\ deadline = RUN_LIMIT_SECONDS * TicksPerSec
    /\ \E s \in DOMAIN SITES :
          /\ sites = <<SITES[s]>>
          /\ product_list = <<Head(SITES[s].seeds \o SITES[s].links)>>
    /\ si = 1 /\ all_rows = <<>> /\ prices = <<>> /\ result = {} /\ digest = "none"
    /\ page \in Pages /\ out = Returns(<<>>)

ScrapePage ==
    /\ ScrapeStep(page)
    /\ out' = Scrape(page, Head(product_list))
    /\ UNCHANGED page

NextPage == ScrapePage \/ SiteDone \/ SitesDone \/ Store

SpecPage == InitPage /\ [][NextPage]_vars

-----------------------------------------------------------------------------
(* The table over many runs: what each crawl collected, appended and     *)
(* queried, with the crawl itself cut down to its outcome                *)

StorePages ==
    { Page(TRUE, GoodName, EmptyText, 0, OneOffer(6800), <<>>),
      Page(TRUE, GoodName, EmptyText, 0, OneOffer(7200), <<>>),
      Page(TRUE, GoodName, EmptyText, 0,
           <<LdItem(EmptyText, EmptyText, <<InStock(6800)>>),
             LdItem(EmptyText, EmptyText, <<InStock(7200)>>)>>, <<>>),
      Page(TRUE, Text({"caviar"}, 30), EmptyText, 0, OneOffer(6800), <<>>),
      NoPage }

FirstUrl(site) == Head(site.seeds \o site.links)

InitStore ==
    /\ prog \in {"canon", "main"}
    /\ run = 0 /\ REQUIRE_SPECIES = 1
    /\ pc = "idle" /\ now = 0 /\ deadline = 0
    /\ sites = <<>> /\ si = 1 /\ product_list = <<>>
    /\ all_rows = <<>> /\ prices = <<>> /\ result = {} /\ digest = "none"
    /\ page = NoPage /\ out = Returns(<<>>)

\* what the site loop of a run may collect from the first product page
\* of each of the two sites, by program and REQUIRE_SPECIES
CrawlOutcomes ==
    [program \in {"canon", "main"}, req \in {0, 1} |->
        {ScrapeSite(program, SITES[1], p1, FirstUrl(SITES[1]), req).rows
            \o ScrapeSite(program, SITES[2], p2, FirstUrl(SITES[2]), req).rows :
         p1 \in StorePages, p2 \in StorePages}]

\* a run up to the end of its site loop
Crawl ==
    /\ pc = "idle"
    /\ \E req \in (IF prog = "main" THEN {0, 1} ELSE {1}) :
       \E rows \in CrawlOutcomes[prog, req] :
          /\ Len(prices) + Len(rows) <= MaxRows
          /\ REQUIRE_SPECIES' = req
          /\ all_rows' = rows
    /\ pc' = "store"
    /\ UNCHANGED <<prog, run, now, deadline, sites, si, product_list, prices,
                   result, digest, page, out>>

NextStore == Crawl \/ Store \/ Query \/ Send \/ Exit \/ Tick

SpecStore == InitStore /\ [][NextStore]_vars

-----------------------------------------------------------------------------
(* The site loop of one run over the configured sites, the page that     *)
(* safe_get returned last and what the scraper made of it on record, up  *)
(* to the query over what the run stored                                 *)

InitCrawl ==
    /\ prog \in {"canon", "main"}
    /\ REQUIRE_SPECIES \in (IF prog = "main" THEN {0, 1} ELSE {1})
    /\ run = 1 /\ pc = "sites" /\ now = 0
    /\ deadline = RUN_LIMIT_SECONDS * TicksPerSec
    /\ sites = SITES /\ si = 1 /\ product_list = <<>>
    /\ all_rows = <<>> /\ prices = <<>> /\ result = {} /\ digest = "none"
    /\ page = NoPage /\ out = Returns(<<>>)

\* what safe_get may return here: the pages of a run, and the same
\* product at another price
CrawlPages ==
    RunPages \cup {Page(TRUE, GoodName, EmptyText, 0, OneOffer(7200), <<>>)}

\* one pass of the product loop, the fetched page and its outcome kept
FetchPage ==
    \E p \in CrawlPages :
        /\ ScrapeStep(p)
        /\ page' = p
        /\ out' = Scrape(p, Head(product_list))

NextCrawl ==
    CrawlSite \/ Discover \/ FetchPage \/ SiteDone \/ SitesDone \/ Store \/ Query

SpecCrawl == InitCrawl /\ [][NextCrawl]_vars

-----------------------------------------------------------------------------
(* Discovery of product links (caviar_scraper.py).  A link is a host, a    *)
(* path and a query string; hosts are written without "www."              *)

MAX_PRODUCTS_PER_SITE == 2    \* env MAX_PRODUCTS_PER_SITE, an int the operator sets
MAX_PAGES_PER_SITE == 160     \* caviar_scraper.py:16
MAX_LINKS_PER_SITE == 500     \* caviar_scraper.py:15

\* tidy_url(u): the fragment and every query parameter but page, p,
\* filter, variant and size are dropped
tidy_url(u) == IF u.query = "page=2" THEN u ELSE [u EXCEPT !.query = ""]

\* a domain test that lets every host through
same_domain_any(u, allow_set) == TRUE

\* same_domain(u, allow_set)
same_domain(u, allow_set) == allow_set = {} \/ u.host \in allow_set

\* any(x in low for x in DISALLOWED_URL_PARTS): "/blog", "/cart", ...
DISALLOWED_URL_PARTS(u) == u.path \in {"/blog/products/a", "/cart"}

\* is_product_url(u): no disallowed part and a hint "/products/", ...
is_product_url(u) ==
    /\ ~DISALLOWED_URL_PARTS(u)
    /\ u.path \in {"/products/a", "/products/b", "/products/c", "/blog/products/a"}

\* is_category_like(u): no disallowed part and "/collections/", "/caviar",
\* "/shop", "/products", ... in the url
is_category_like(u) ==
    /\ ~DISALLOWED_URL_PARTS(u)
    /\ u.path \in {"/collections/caviar", "/products/a", "/products/b", "/products/c"}

\* the while loop of discover_bfs.  web.ok: the urls safe_get answers with
\* a page; web.hrefs, web.next: the anchors and the rel=next / "Next"
\* links of a page; web.budget: the passes the deadline leaves time for.
\* The result is the list of urls handed to safe_get and the product links
\* found.  Links of one page are queued in some order of the set `links`.
RECURSIVE bfs_loop(_, _, _, _, _, _, _)
bfs_loop(web, allow_set, queue, seen, out_product_links, fetched, pages_crawled) ==
    IF queue = <<>> \/ pages_crawled >= MAX_PAGES_PER_SITE \/ Len(fetched) >= web.budget
    THEN [fetched |-> fetched, products |-> out_product_links]
    ELSE LET cur    == Head(queue)
             hrefs  == {tidy_url(h) : h \in web.hrefs[cur]}
             fresh  == {u \in hrefs : same_domain(u, allow_set) /\ u \notin seen
                                        /\ ~DISALLOWED_URL_PARTS(u)}
             prods  == {u \in fresh : is_product_url(u)}
             seen1  == seen \cup prods
             nexts  == {u \in {tidy_url(h) : h \in web.next[cur]} :
                          same_domain(u, allow_set) /\ u \notin seen1}
             links  == {u \in fresh \ prods : is_category_like(u)} \cup nexts
             RECURSIVE enqueue(_, _)
             enqueue(todo, n) ==
                 IF todo = {} \/ n >= MAX_LINKS_PER_SITE THEN <<>>
                 ELSE LET u == CHOOSE x \in todo : TRUE
                      IN  <<u>> \o enqueue(todo \ {u}, n + 1)
             added  == enqueue(links, Cardinality(seen1))
         IN  IF cur \notin web.ok
             THEN bfs_loop(web, allow_set, Tail(queue), seen, out_product_links,
                           Append(fetched, cur), pages_crawled)
             ELSE bfs_loop(web, allow_set, Tail(queue) \o added,
                           seen1 \cup {added[i] : i \in DOMAIN added},
                           out_product_links \cup prods,
                           Append(fetched, cur), pages_crawled + 1)

\* discover_bfs(sess, start_urls, allow_set, deadline) before its final
\* cut: every start url of the site's domain is queued and marked seen
discover_bfs(web, start_urls, allow_set) ==
    LET starts == SelectSeq([i \in DOMAIN start_urls |-> tidy_url(start_urls[i])],
                            LAMBDA u : same_domain(u, allow_set))
    IN  bfs_loop(web, allow_set, starts, {starts[i] : i \in DOMAIN starts}, {}, <<>>, 0)

\* crawl_site up to product_list: seeds, breadth-first discovery, sitemap
\* and selector sweep, each filtered by same_domain and is_product_url, and
\* the final cut; every product_list the site may come to.  cut(s) is
\* list(s)[:MAX_PRODUCTS_PER_SITE]: every set the cut of a set may keep
crawl_site(site_cfg, web) ==
    LET cut(s)  == {t \in SUBSET s :
                      Cardinality(t) = Min(MAX_PRODUCTS_PER_SITE, Cardinality(s))}
        allow   == site_cfg.allow_domains
        keep(S) == {u \in {tidy_url(h) : h \in S} : same_domain(u, allow) /\ is_product_url(u)}
        seeds   == keep({site_cfg.seed_product_urls[i] : i \in DOMAIN site_cfg.seed_product_urls})
        crawled == site_cfg.start_urls # <<>>
        bfs     == IF crawled THEN discover_bfs(web, site_cfg.start_urls, allow).products ELSE {}
        sitemap == IF crawled THEN keep(web.sitemap) ELSE {}
        sweep   == IF crawled THEN keep(web.selected) ELSE {}
    IN  UNION {cut(seeds \cup b \cup m \cup sweep) : b \in cut(bfs), m \in cut(sitemap)}

-----------------------------------------------------------------------------

(* The pure functions, applied to inputs drawn from bounded sets: page   *)
(* holds the input, out the function applied and its value              *)

FnTokens == {"caviar", "kaluga", "kaluga hybrid", "classic", "osetra", "tin",
             "gift set", "tasting"}

\* rows as the latest-distinct query returns them: a 30 g tin, a 27 g
\* tin, a 125 g tin and a row whose size is None
FnRow(vendor, size_g, price) ==
    [vendor |-> vendor, name |-> Text({"oscietra", "caviar"}, size_g),
     species |-> "Osetra",
     species_latin |-> "Acipenser gueldenstaedtii", grade |-> NULL,
     currency |-> "USD", price |-> price, size_g |-> size_g,
     size_label |-> NULL, per_g |-> Frac(price, Max(size_g, 1)),
     url |-> FirstUrl(IF vendor = SITES[1].name THEN SITES[1] ELSE SITES[2]),
     origin |-> vendor_state(vendor)]

FnRows ==
    {FnRow("Pearl Street Caviar", 30, 6800), FnRow("Island Creek", 27, 6100),
     FnRow("Island Creek", 125, 24000), FnRow("Pearl Street Caviar", 0, 6800)}

\* eight 30 g tins of one bucket: two vendors, two prices, graded Royal
\* or not graded
PickRows ==
    {[FnRow(v, 30, p) EXCEPT !.grade = g] :
        v \in {"Pearl Street Caviar", "Island Creek"}, p \in {6000, 6800},
        g \in {"Royal", NULL}}

\* tables of main.py.  Six products (two sites, three tin sizes) seen in
\* two runs a second apart, the price of each unchanged, up by 6.00 or
\* down by 12.00; and one product seen three times, twice within the
\* first second and once in the next, at 68.00 or 72.00 each time
MoverStores ==
    LET products ==
            <<<<"Pearl Street Caviar", 30, 6800>>, <<"Pearl Street Caviar", 50, 9900>>,
              <<"Pearl Street Caviar", 125, 24000>>, <<"Island Creek", 30, 6800>>,
              <<"Island Creek", 50, 9900>>, <<"Island Creek", 125, 24000>>>>
    IN
    {[i \in 1..12 |->
        LET k == IF i <= 6 THEN i ELSE i - 6
            q == products[k]
        IN  Stored(FnRow(q[1], q[2], q[3] + (IF i <= 6 THEN 0 ELSE d[k])),
                   IF i <= 6 THEN 0 ELSE TicksPerSec)] :
        d \in [1..6 -> {0, 600, -1200}]}
      \cup
    {[i \in 1..3 |-> Stored(FnRow("Island Creek", 30, p[i]), i - 1)] :
        p \in [1..3 -> {6800, 7200}]}

\* one site and the web it is crawled on: a category page c1 (also linked
\* with a tracking parameter) whose rel=next is its second page c2, the
\* products a, b and c, a product of a foreign host, a blog page under
\* /products/ and an about page
SiteInputs ==
    LET Url(host, path, query) == [host |-> host, path |-> path, query |-> query]
        own == "islandcreekoysters.com"
        c1  == Url(own, "/collections/caviar", "")
        c1t == Url(own, "/collections/caviar", "utm_source=mail")
        c2  == Url(own, "/collections/caviar", "page=2")
        pa  == Url(own, "/products/a", "")
        pat == Url(own, "/products/a", "utm_source=mail")
        pb  == Url(own, "/products/b", "")
        pcc == Url(own, "/products/c", "")
        px  == Url("cdn.shopify.com", "/products/a", "")
        bl  == Url(own, "/blog/products/a", "")
        ab  == Url(own, "/about", "")
        all == {c1, c1t, c2, pa, pat, pb, pcc, px, bl, ab}
    IN  {[kind |-> "site",
          site_cfg |-> [allow_domains |-> allow, seed_product_urls |-> seeds,
                        start_urls |-> starts],
          web |-> [ok |-> all \ down, budget |-> budget,
                   hrefs |-> [u \in all |-> IF u = c1 THEN on_c1
                                            ELSE IF u = c2 THEN {c1t, pcc, ab} ELSE {}],
                   next |-> [u \in all |-> IF u = c1 THEN nxt ELSE {}],
                   sitemap |-> sitemap, selected |-> selected]] :
         allow \in {{}, {own}},
         seeds \in {<<>>, <<pat, px, bl, ab>>},
         starts \in {<<>>, <<c1>>, <<c1, c1>>, <<c1t, c1>>, <<px, c1>>},
         down \in {{}, {c2}},
         budget \in {1, 9},
         on_c1 \in SUBSET {pa, pb, px, bl},
         nxt \in {{}, {c2}},
         sitemap \in {{}, {pa, pcc, px, bl}},
         selected \in {{}, {pb, ab}}}

FnInputs ==
    SiteInputs \cup
    {[kind |-> "store", db |-> db] : db \in MoverStores} \cup
    {[kind |-> "text", text |-> t] : t \in SUBSET FnTokens}
        \cup {[kind |-> "grams", g |-> g] : g \in 0..MaxGrams}
        \cup {[kind |-> "rows", rows |-> rs] : rs \in SUBSET FnRows}
        \cup {[kind |-> "rows", rows |-> rs] : rs \in SUBSET PickRows}

InitFn ==
    /\ prog \in {"canon", "main"}
    /\ run = 0 /\ REQUIRE_SPECIES = 1
    /\ pc = "input" /\ now = 0 /\ deadline = 0
    /\ sites = <<>> /\ si = 1 /\ product_list = <<>>
    /\ all_rows = <<>> /\ prices = <<>> /\ result = {} /\ digest = "none"
    /\ page \in FnInputs /\ out = [fn |-> "none"]

\* the function fn of the running program was called and returned value
Applied(fn, value) ==
    /\ pc = "input"
    /\ pc' = fn
    /\ out' = [fn |-> fn, value |-> value]
    /\ UNCHANGED <<prog, run, REQUIRE_SPECIES, now, deadline, sites, si,
                   product_list, all_rows, prices, result, digest, page>>

ExtractSpecies ==
    /\ page.kind = "text"
    /\ Applied("extract_species",
               IF prog = "canon" THEN extract_species(page.text)
               ELSE extract_species_any(page.text))

AccessoryCheck ==
    /\ page.kind = "text"
    /\ Applied("accessory",
               IF prog = "canon" THEN is_accessory_name_only(page.text)
               ELSE looks_like_accessory(page.text))

BucketForSize ==
    /\ page.kind = "grams"
    /\ Applied("bucket_for_size", bucket_for_size(page.g))

GroupAndPick ==
    /\ page.kind = "rows"
    /\ Applied("group_and_pick", group_and_pick(page.rows))

\* parse_size(size_label_both(g)) / parse_size(grams_to_label_both(g))
LabelRoundTrip ==
    /\ page.kind = "grams" /\ page.g > 0
    /\ Applied("round_trip",
               parse_size_label(IF prog = "canon" THEN size_label_both(page.g)
                                ELSE grams_to_label_both(page.g, NULL)))

\* get_movers(conn) of main.py over the table of the input
GetMovers ==
    /\ page.kind = "store" /\ prog = "main"
    /\ \E movers \in get_movers(page.db, REQUIRE_SPECIES) : Applied("get_movers", movers)

\* discover_bfs of caviar_scraper.py over the site of the input
DiscoverBfs ==
    /\ page.kind = "site" /\ prog = "canon"
    /\ Applied("discover_bfs",
               discover_bfs(page.web, page.site_cfg.start_urls, page.site_cfg.allow_domains))

\* crawl_site of caviar_scraper.py up to its product_list
CrawlSiteLinks ==
    /\ page.kind = "site" /\ prog = "canon"
    /\ \E product_list_ \in crawl_site(page.site_cfg, page.web) :
          Applied("crawl_site", product_list_)

NextFn ==
    \/ ExtractSpecies \/ AccessoryCheck \/ BucketForSize \/ GroupAndPick
    \/ LabelRoundTrip \/ GetMovers \/ DiscoverBfs \/ CrawlSiteLinks

SpecFn == InitFn /\ [][NextFn]_vars

-----------------------------------------------------------------------------

(* Properties *)

\* every word of the page and of the site's default_species that a
\* species rule could read
SpeciesSources(p, site) ==
    p.name.tok \cup p.body.tok \cup site.default_species
        \cup UNION {p.ld[i].name.tok \cup p.ld[i].desc.tok : i \in DOMAIN p.ld}

Unresolvable(p, site) ==
    /\ extract_species(SpeciesSources(p, site)).common = NULL
    /\ extract_species_any(SpeciesSources(p, site)).common = NULL

\* C1: in species-required mode every row of the prices table carries a
\* species of the closed vocabulary, and a page whose species cannot be
\* resolved from its name, its text, its structured data or the site
\* default leaves no row behind.
C1_SpeciesRequired ==
    REQUIRE_SPECIES = 1 =>
        /\ \A i \in DOMAIN prices :
              prices[i].species # "" /\ prices[i].species \in SpeciesVocabulary
        /\ Unresolvable(page, sites[1]) => (all_rows = <<>> /\ prices = <<>>)

\* a priced, sized caviar page without any species word went through the
\* species-required run and left nothing in the table, where the relaxed
\* mode would have kept it
C1_Witness ==
    /\ pc = "query" /\ prog = "main" /\ REQUIRE_SPECIES = 1
    /\ Unresolvable(page, sites[1])
    /\ scrape_product_page(page, FirstUrl(sites[1]), 0).rows # <<>>
    /\ prices = <<>>

\* C2: every stored observation has 0 < price per gram <= 100.
C2_PerGramBand ==
    \A i \in DOMAIN prices :
        /\ prices[i].per_g.num > 0
        /\ prices[i].per_g.num <= PPG_MAX_CENTS * prices[i].per_g.den

\* C3: every stored observation has a size within 2 g of a nominal tin
\* size, unless the page's text carries a packaging word.
C3_NominalSize ==
    \A i \in DOMAIN prices :
        \/ plausible_size(prices[i].size_g)
        \/ plausible_size_main(prices[i].size_g)
        \/ infer_packaging(page.name.tok \cup page.body.tok) # NULL

\* C4: the prices table is append-only: no step changes or drops a row,
\* the store step adds exactly one row per element of the list it is
\* handed, in order, and every other step leaves the table as it is.
C4_AppendOnly ==
    [][ /\ Len(prices') >= Len(prices)
        /\ SubSeq(prices', 1, Len(prices)) = prices
        /\ pc = "store" =>
              /\ Len(prices') = Len(prices) + Len(Collected)
              /\ \A i \in DOMAIN Collected :
                    prices'[Len(prices) + i]
                        = Stored(Collected[i], prices'[Len(prices) + i].seen_at)
        /\ pc # "store" => prices' = prices ]_vars

\* a second run has appended one row to a table that already held one
C4_Witness ==
    /\ pc = "query" /\ Len(prices) = 2 /\ Len(all_rows) = 1
    /\ prices[2] = Stored(all_rows[1], prices[2].seen_at)

\* the rows the latest-distinct query of the running program reads
Eligible ==
    {i \in DOMAIN prices :
        (prog = "main" /\ REQUIRE_SPECIES = 0) \/ has_species(prices[i])}

\* the rows of the result for the key of table row i
ResultFor(i) ==
    {r \in result : <<r.vendor, r.url, r.size_g>> = PartKey(prices[i])}

\* C5: for every key the query returns one row, and when a stored row of
\* the key has a later seen_at than every other row of the key, the
\* returned price is that row's.
C5_LatestWins ==
    pc = "send" =>
        \A j \in Eligible :
            (\A k \in Eligible \ {j} :
                PartKey(prices[k]) = PartKey(prices[j]) => prices[k].seen_at < prices[j].seen_at)
            => \A r \in ResultFor(j) : r.price = prices[j].price

\* the table rows the run just stored
JustStored == (Len(prices) - Len(Collected) + 1)..Len(prices)

\* C6: rows of one crawl that agree on everything but the price come back
\* as one row carrying the cheapest of their prices.
C6_CheapestOfDuplicates ==
    pc = "send" =>
        \A i \in JustStored \cap Eligible :
            LET D == {j \in JustStored \cap Eligible : GroupKey(prices[j]) = GroupKey(prices[i])}
            IN  Cardinality(D) > 1 =>
                   /\ Cardinality(ResultFor(i)) = 1
                   /\ \A r \in ResultFor(i) : r.price = MinOf({prices[j].price : j \in D})

\* C7: the query returns no row without a species unless the relaxed mode
\* is on; in relaxed mode a row without a species is returned like any
\* other (when no other row of its key supersedes it).
C7_SpeciesFilter ==
    pc = "send" =>
        IF prog = "main" /\ REQUIRE_SPECIES = 0
        THEN \A i \in DOMAIN prices :
                (/\ prices[i].species \in {NULL, ""}
                 /\ \A k \in DOMAIN prices \ {i} : PartKey(prices[k]) # PartKey(prices[i]))
                => \E r \in ResultFor(i) : r.species \in {NULL, ""}
        ELSE \A r \in result : r.species \notin {NULL, ""}

\* a species-required query over a table that holds a row without a
\* species, left by an earlier relaxed run, next to a row with one
C7_Witness ==
    /\ pc = "send" /\ prog = "main" /\ REQUIRE_SPECIES = 1
    /\ \E i \in DOMAIN prices : prices[i].species \in {NULL, ""}
    /\ result # {}

\* the steps the deadline governs
SiteCrawlStarts == pc = "sites" /\ pc' = "crawl"
LinksDiscovered == pc = "crawl" /\ pc' = "products" /\ product_list' # <<>>
PageScraped ==
    /\ pc = "products"
    /\ pc' = "aborted" \/ (pc' = "products" /\ product_list' # product_list)

\* once the deadline is reached nothing is discovered or scraped, what
\* was collected is kept, and the store step is handed all of it
DeadlineKeepsRows ==
    /\ LinksDiscovered => now < deadline
    /\ PageScraped => now < deadline
    /\ (pc \in {"sites", "crawl", "products"} /\ now >= deadline) =>
          /\ all_rows' = all_rows
          /\ pc' \in {"sites", "crawl", "products", "store"}
    /\ pc = "store" =>
          \A i \in DOMAIN all_rows :
             \E j \in (Len(prices) + 1)..Len(prices') :
                prices'[j] = Stored(all_rows[i], prices'[j].seen_at)

\* C8: the deadline is tested before each site and each product page: no
\* site crawl is started once the clock has passed the deadline, nothing
\* is discovered or scraped once it has reached it, and the rows
\* collected until then are all handed to the store.
C8_CooperativeDeadline ==
    [][ (SiteCrawlStarts => now <= deadline) /\ DeadlineKeepsRows ]_vars

\* the site loop stopped on the timebox with sites left, and the rows
\* collected before it are in the table
C8_Witness ==
    /\ pc = "query" /\ sites # <<>> /\ si <= Len(sites) /\ now >= deadline
    /\ all_rows # <<>>
    /\ \A i \in DOMAIN all_rows :
          \E j \in DOMAIN prices : prices[j] = Stored(all_rows[i], prices[j].seen_at)

\* C8 as stated: no site crawl is started once the clock has reached the
\* deadline.
C8_AsStated ==
    [][ (SiteCrawlStarts => now < deadline) /\ DeadlineKeepsRows ]_vars

\* C9: a run whose configuration loaded does not end before the digest
\* stage.
C9_ReachesDigest == pc = "aborted" => sites = <<>>

\* C10: no exception escapes the page scraper, and the run is not left
\* because of a page.
C10_PageErrorsStayLocal == ~out.exc /\ pc # "aborted"

\* C11: a page whose fetch fails yields no observation and raises nothing:
\* the product loop goes on with the next link of the site, and when the
\* product loop of a site ends, whatever its pages returned, the site loop
\* moves on to the next site with the rows collected so far.
C11_NetworkFailuresSkipped ==
    [][ /\ \A p \in RunPages :
              (~p.ok /\ ScrapeStep(p)) =>
                  /\ pc' = "products"
                  /\ product_list' = Tail(product_list)
                  /\ all_rows' = all_rows
        /\ (pc = "products" /\ ~page'.ok /\ pc' # "products") =>
              /\ pc' = "sites" /\ si' = si + 1
              /\ sites' = sites /\ all_rows' = all_rows ]_vars

\* the seed page of the first site was fetched, the last page fetched
\* failed and left nothing, and the crawl stands in the second site with
\* a product link still to be scraped
C11_Witness ==
    /\ prog = "canon" /\ pc = "products" /\ si = 2
    /\ ~page.ok /\ out = Returns(<<>>) /\ all_rows = <<>>
    /\ product_list = <<URL("islandcreekoysters.com", "/products/b")>>

\* C12: a run whose site configuration could not be loaded goes on with an
\* empty site list to the store, the query and the send: it is never
\* aborted.
C12_MissingConfigDegrades ==
    (run > 0 /\ sites = <<>> /\ pc \notin {"idle"}) =>
        pc \in {"sites", "store", "query", "send", "done"}

\* C13: when the run collected no observation, the digest text handed to
\* the sender carries the no-listings line, whatever the table holds from
\* earlier runs.
C13_EmptyRunSaysSo ==
    (pc = "send" /\ prog = "canon" /\ all_rows = <<>>) => DigestText.no_listings

\* C14: for a text that holds the marker "Kaluga Hybrid" the species
\* matcher returns "Kaluga Hybrid", never plain "Kaluga".
C14_HybridPrecedence ==
    (pc = "extract_species" /\ "kaluga hybrid" \in page.text) =>
        out.value.common = "Kaluga Hybrid"

\* C15: a text whose only exclusion tokens sit inside longer words
\* ("class" in "Classic", "set" in "Osetra") is not flagged by the
\* accessory check.
C15_WholeWordExclusion ==
    (pc = "accessory" /\ page.text \cap {"gift set", "tasting"} = {}) => ~out.value

\* C16: for a size of at least 28 g the bucket is For 2 up to 50 g, For 4
\* above 50 g up to 110 g, Specials above 110 g up to 260 g and Bulk above
\* 260 g; the bucket is a function of the size alone.
C16_BucketThresholds ==
    (pc = "bucket_for_size" /\ page.g >= 28) =>
        /\ page.g <= 50 => out.value = "For 2 (30-50 g)"
        /\ (50 < page.g /\ page.g <= 110) => out.value = "For 4 (~100 g)"
        /\ (110 < page.g /\ page.g <= 260) => out.value = "Specials (125-250 g)"
        /\ page.g > 260 => out.value = "Bulk (500 g+)"

\* the boundary size 260 g was bucketed, as Specials
C16_Witness ==
    pc = "bucket_for_size" /\ page.g = 260 /\ out.value = "Specials (125-250 g)"

\* C17: a row whose size is None or below the minimum tin size of 28 g is
\* in no bucket of the grouped digest.
C17_SmallSizesExcluded ==
    pc = "group_and_pick" =>
        \A r \in page.rows :
            r.size_g < 28 => \A b \in BucketNames : r \notin out.value.buckets[b]

\* C18: parsing the size label rendered for a positive gram value g gives
\* a value within 0.5 g of g.
C18_LabelRoundTrip ==
    pc = "round_trip" => Abs(out.value - page.g * 100000) <= 50000

\* the text holds an accessory phrase as whole words
AccessoryPhrase(toks) == "gift set" \in toks

\* C19: a page on whose product name the accessory check fires yields no
\* observation, whatever its caviar-word, species, size and price signals;
\* in main.py the same holds when the check fires on the page text.
C19_AccessoryRejected ==
    (\/ AccessoryPhrase(page.name.tok)
     \/ (prog = "main" /\ AccessoryPhrase(page.body.tok))) =>
        (out.rows = <<>> /\ all_rows = <<>> /\ prices = <<>>)

\* a gift-set page with species, size, caviar word and a priced in-stock
\* offer went through scrape and store and left nothing, where the same
\* page under a plain name leaves a row
C19_Witness ==
    /\ pc = "query" /\ prices = <<>>
    /\ page.name = Text({"oscietra", "caviar", "gift set"}, 30)
    /\ page.body = EmptyText /\ page.ld = OneOffer(6800)
    /\ ScrapeSite(prog, sites[1], [page EXCEPT !.name = GoodName],
                  FirstUrl(sites[1]), REQUIRE_SPECIES).rows # <<>>

\* C19 as stated: the page is rejected whenever the accessory check fires
\* on the product name or on the full page text.
C19_AsStated ==
    AccessoryPhrase(page.name.tok \cup page.body.tok) =>
        (out.rows = <<>> /\ all_rows = <<>> /\ prices = <<>>)

\* C20: a page whose text says "sold out" yields no observation, whichever
\* extractor supplies the price.
C20_SoldOutRejected ==
    "sold out" \in (page.name.tok \cup page.body.tok) =>
        (out.rows = <<>> /\ all_rows = <<>> /\ prices = <<>>)


\* the page carries a structured-data offer whose availability string
\* does not hold "instock"
NegativeAvailability(p) ==
    \E i \in DOMAIN p.ld : \E j \in DOMAIN p.ld[i].offers :
        p.ld[i].offers[j].availability \notin {NULL, "InStock"}

\* C21: a page with a structured-data offer whose availability does not
\* hold "instock" yields no observation from the canonical scraper, by the
\* structured-data, the platform-variant or the free-text extractor.
C21_NegativeAvailabilityRejects ==
    (prog = "canon" /\ NegativeAvailability(page)) =>
        (out.rows = <<>> /\ all_rows = <<>> /\ prices = <<>>)

\* the prices the structured data and the platform variants of a page offer
StructuredPrices(p) ==
    UNION {{p.ld[i].offers[j].price : j \in DOMAIN p.ld[i].offers} : i \in DOMAIN p.ld}
VariantPrices(p) == {p.variants[i].price : i \in DOMAIN p.variants}

\* the row's price can only be the inline price of the page text / only a
\* platform variant's price
FromFreeText(r) ==
    r.price = page.money /\ r.price \notin StructuredPrices(page) \cup VariantPrices(page)
FromPlatform(r) ==
    r.price \in VariantPrices(page) /\ r.price \notin StructuredPrices(page) \cup {page.money}

\* every structured-data item holds well-formed, priced, in-stock offers
\* and the page does not say sold out / every platform variant is
\* well-formed, available, priced and of a nominal size
StructuredOffers(p) ==
    /\ p.ld # <<>> /\ "sold out" \notin (p.name.tok \cup p.body.tok)
    /\ \A i \in DOMAIN p.ld :
          /\ p.ld[i].offers # <<>>
          /\ \A j \in DOMAIN p.ld[i].offers :
                LET o == p.ld[i].offers[j]
                IN  o.price > 0 /\ o.availability = "InStock" /\ ~o.badprice /\ ~o.numsku
PlatformOffers(p) ==
    /\ p.variants # <<>>
    /\ \A i \in DOMAIN p.variants :
          LET v == p.variants[i]
          IN  ~v.bad /\ v.available /\ v.price > 0 /\ plausible_size_main(v.size)

\* C22 as stated: a platform variant's price is emitted only when the
\* structured data gave no offer, and the inline price of the page text
\* only when neither the structured data nor the platform variants gave
\* one.
C22_AsStated ==
    \A k \in DOMAIN out.rows :
        /\ FromPlatform(out.rows[k]) => ~StructuredOffers(page)
        /\ FromFreeText(out.rows[k]) => (~StructuredOffers(page) /\ ~PlatformOffers(page))

\* C22: the stages run structured data, platform variants, free text, and
\* a later stage adds a row only when the earlier ones added none: a
\* platform variant's price is emitted only when the structured data gave
\* no offer; in caviar_scraper.py the inline price of the page text is
\* emitted only when neither the structured data nor the platform variants
\* gave one, and in main.py only by the structured-data stage itself, for
\* an item whose offer carries no price.
C22_ExtractorOrder ==
    \A k \in DOMAIN out.rows :
        /\ FromPlatform(out.rows[k]) => ~StructuredOffers(page)
        /\ FromFreeText(out.rows[k]) =>
              IF prog = "canon"
              THEN ~StructuredOffers(page) /\ ~PlatformOffers(page)
              ELSE 0 \in StructuredPrices(page)

\* a page whose structured-data offer has no price and whose only variant
\* has none either went through the canonical scraper: the row stored
\* carries the inline price of the page text
C22_Witness ==
    /\ prog = "canon" /\ pc = "query" /\ Len(prices) = 1
    /\ page.ld # <<>> /\ page.variants # <<>>
    /\ FromFreeText(out.rows[1])

\* neither the word "caviar" nor a species word is in the name or the
\* page text
NoCaviarSignal(p) ==
    (p.name.tok \cup p.body.tok)
        \cap {"caviar", "beluga", "kaluga", "kaluga hybrid", "ossetra",
              "oscietra", "sevruga"} = {}

\* C25: a page whose name and text hold neither the word "caviar" nor a
\* species word yields no observation, whatever the site's default
\* species.
C25_NotCaviarRejected ==
    NoCaviarSignal(page) => (out.rows = <<>> /\ all_rows = <<>> /\ prices = <<>>)

\* the species rules read "beluga" off the page
BelugaPage(p) == "beluga" \in (p.name.tok \cup p.body.tok)

\* C26: the canonical scraper emits no observation of species "Beluga": a
\* page on which Beluga is detected comes out as Kaluga Hybrid (Huso
\* dauricus x Acipenser schrenckii) for Pearl Street Caviar, and yields
\* nothing for a vendor without a mapping.
C26_NoBelugaEmitted ==
    prog = "canon" =>
        /\ \A k \in DOMAIN out.rows : out.rows[k].species # "Beluga"
        /\ \A i \in DOMAIN prices : prices[i].species # "Beluga"
        /\ ("beluga" \in page.name.tok /\ sites[1].name # "Pearl Street Caviar")
              => out.rows = <<>>
        /\ ("beluga" \in page.name.tok /\ sites[1].name = "Pearl Street Caviar")
              => \A k \in DOMAIN out.rows :
                    /\ out.rows[k].species = "Kaluga Hybrid"
                    /\ out.rows[k].species_latin = "Huso dauricus x Acipenser schrenckii"

\* a Pearl Street page named Beluga went through the canonical scraper
\* and the store: the row in the table says Kaluga Hybrid
C26_Witness ==
    /\ prog = "canon" /\ pc = "query" /\ BelugaPage(page)
    /\ Len(prices) = 1 /\ prices[1].species = "Kaluga Hybrid"
    /\ prices[1].vendor = "Pearl Street Caviar"

\* the page lists more than one size: several offers, items or variants
MultiSize(p) ==
    \/ Len(p.variants) > 1
    \/ Len(p.ld) > 1
    \/ \E i \in DOMAIN p.ld : Len(p.ld[i].offers) > 1

\* C27: the canonical scraper returns at most one observation per page,
\* so a run of one page collects and stores at most one row, however many
\* sizes the page lists.
C27_OneRowPerPage ==
    prog = "canon" => (Len(out.rows) <= 1 /\ Len(all_rows) <= 1 /\ Len(prices) <= 1)

\* a page with two priced in-stock structured-data items went through the
\* canonical scraper and the store and left one row, where main.py
\* returns a row per item
C27_Witness ==
    /\ prog = "canon" /\ pc = "query" /\ MultiSize(page)
    /\ Len(out.rows) = 1 /\ Len(prices) = 1
    /\ Len(scrape_product_page(page, FirstUrl(sites[1]), 1).rows) = 2

\* the rank key of a row is strictly smaller than that of another: grade
\* rank (a missing grade ranks 99), then price per gram, then vendor name
RankKeyLess(a, b) ==
    LET ra == IF a.grade = NULL THEN 99 ELSE GRADE_RANK(a.grade)
        rb == IF b.grade = NULL THEN 99 ELSE GRADE_RANK(b.grade)
        pa == a.per_g.num * b.per_g.den
        pb == b.per_g.num * a.per_g.den
    IN  \/ ra < rb
        \/ ra = rb /\ pa < pb
        \/ ra = rb /\ pa = pb /\ a.vendor = "Island Creek" /\ b.vendor = "Pearl Street Caviar"

\* C23: each bucket's top picks are the first min(6, bucket size) members
\* of the bucket by the rank key: at most 6, all of the bucket, without
\* repetition, in ascending key order, and no member left out has a
\* strictly smaller key than one that is in.
C23_TopPicks ==
    pc = "group_and_pick" =>
        \A b \in BucketNames :
            LET t == out.value.top_picks[b]
                B == out.value.buckets[b]
                T == {t[i] : i \in DOMAIN t}
            IN  /\ Len(t) = Min(6, Cardinality(B))
                /\ T \subseteq B /\ Cardinality(T) = Len(t)
                /\ \A i, j \in DOMAIN t : i < j => ~RankKeyLess(t[j], t[i])
                /\ \A x \in B \ T : \A y \in T : ~RankKeyLess(x, y)

\* a bucket of eight 30 g tins was cut down to six picks, a graded tin
\* first
C23_Witness ==
    /\ pc = "group_and_pick" /\ page.rows = PickRows
    /\ Len(out.value.top_picks["For 2 (30-50 g)"]) = 6
    /\ out.value.top_picks["For 2 (30-50 g)"][1].grade = "Royal"

\* C30: every row that get_cheapest returns is one stored observation: a
\* row of the table has its site, name, size, price, price per gram and
\* url.
C30_RowsAreStoredRows ==
    (pc = "send" /\ prog = "main") =>
        \A r \in result :
            \E i \in DOMAIN prices :
                /\ prices[i].vendor = r.vendor /\ prices[i].name = r.name
                /\ prices[i].size_g = r.size_g /\ prices[i].price = r.price
                /\ prices[i].per_g = r.per_g /\ prices[i].url = r.url

\* the rows of the key of row i, latest first by seen_at, and what the
\* comparison of the two most recent observations of every key with two
\* rows or more gives when their prices differ
KeyRows(db, i) == {j \in DOMAIN db : MoverKey(db[j]) = MoverKey(db[i])}
MostRecent(db, G) == CHOOSE a \in G : \A j \in G : db[j].seen_at <= db[a].seen_at
ExpectedMovers(db) ==
    {[vendor |-> db[MostRecent(db, KeyRows(db, i))].vendor,
      name   |-> db[MostRecent(db, KeyRows(db, i))].name,
      price  |-> db[MostRecent(db, KeyRows(db, i))].price,
      prev   |-> db[MostRecent(db, KeyRows(db, i) \ {MostRecent(db, KeyRows(db, i))})].price] :
        i \in {j \in DOMAIN db : Cardinality(KeyRows(db, j)) >= 2}}

\* |price - prev| / prev of x is at least that of y
ChangeGeq(x, y) == Abs(x.price - x.prev) * y.prev >= Abs(y.price - y.prev) * x.prev

\* C24: the movers are, for each (vendor, name) with two observations or
\* more, the comparison of its two most recent observations by timestamp,
\* kept only when the prices differ; the list is in descending order of
\* absolute percent change and holds the 5 largest changes at most.
C24_Movers ==
    pc = "get_movers" =>
        LET res  == out.value
            got  == {[vendor |-> res[k].vendor, name |-> res[k].name,
                      price |-> res[k].price, prev |-> res[k].prev] : k \in DOMAIN res}
            want == {e \in ExpectedMovers(page.db) : e.price # e.prev}
        IN  /\ Len(res) = Min(5, Cardinality(want))
            /\ Cardinality(got) = Len(res)
            /\ got \subseteq want
            /\ \A i, j \in DOMAIN res : i < j => ChangeGeq(res[i], res[j])
            /\ \A x \in got : \A y \in want \ got : ChangeGeq(x, y)

\* C28: breadth-first discovery hands no url to safe_get more than once,
\* for every list of start urls and every link graph
C28_NoUrlFetchedTwice ==
    pc = "discover_bfs" =>
        \A i, j \in DOMAIN out.value.fetched :
            i # j => out.value.fetched[i] # out.value.fetched[j]

=============================================================================
